---- MODULE Spec2Model ----
(***************************************************************************)
(* Model of prometheus-carburanti-exporter: the record cache (cache.go),  *)
(* the price feed parser, the two station feed parsers and the refresh    *)
(* loop (main.go).                                                         *)
(*                                                                         *)
(* Go strings are modelled as sequences of one-character strings, so that *)
(* strings.Split, strconv.ParseInt, time.Parse, ... are computed on the   *)
(* characters as the library computes them.  The inputs are ASCII text    *)
(* with no quote character and no carriage return: on it encoding/csv     *)
(* splits a line on ';'.  Outside the inputs of the model are also: in a  *)
(* number, a decimal exponent, a hexadecimal mantissa (0x...p...), an     *)
(* underscore and more than nine digits; in a time, a fraction of a       *)
(* second.  Inf, Infinity and NaN are inputs of strconv.ParseFloat.       *)
(***************************************************************************)
EXTENDS Integers, Sequences, FiniteSets, TLC

VARIABLES
    build,        \* which updateStations is compiled in: "csv" (src/main.go) or "scanner" (src/unnamed/part_001)
    pc,           \* position of the refresh goroutine
    now,          \* wall clock, seconds since the Unix epoch
    entries,      \* Cache.entries: key -> CacheEntry
    records,      \* the goroutine's local `records` of the current iteration
    stations,     \* the goroutine's local `stations` of the current iteration
    gauge,        \* carburantiGauge: label tuple -> value
    emitted,      \* the Set calls of the current iteration, in order
    puts,         \* the cache.Put calls of the current iteration, in order
    priceOutcome, \* how refreshRecords ended in the current iteration
    stationOutcome, \* how updateStations ended in the current iteration
    iter,         \* number of the current iteration
    priceResp,    \* the response http.Get(pricesCSVURL) gave in the current iteration
    stationResp,  \* the response http.Get(stationsCSVURL) gave in the current iteration
    putHist,      \* cache harness: key -> what was Put to it and when first
    getResult,    \* cache harness: what the last Get returned
    mu,           \* Cache.mu: 0 when unlocked, else the caller that holds it
    calls,        \* concurrent callers: caller -> its call of Put or Get and its position in it
    started       \* concurrent callers: number of calls started so far

vars == <<build, pc, now, entries, records, stations, gauge, emitted, puts,
          priceOutcome, stationOutcome, iter, priceResp, stationResp,
          putHist, getResult, mu, calls, started>>

loopVars == <<build, pc, records, stations, gauge, emitted, puts,
              priceOutcome, stationOutcome, iter, priceResp, stationResp>>

harnessVars == <<putHist, getResult>>

lockVars == <<mu, calls, started>>

-----------------------------------------------------------------------------
(* Bounds of the model *)

MaxIter == 2        \* iterations of the refresh loop
MaxTicks == 3       \* clock ticks of the cache harness
MaxPuts == 2        \* Put calls per key in the cache harness
MaxRows == 2        \* data rows of a feed, where the feeds are enumerated
NCallers == 2       \* goroutines calling Put and Get concurrently
MaxCalls == 3       \* calls of Put and Get the concurrent callers start

(* Durations, in seconds *)

TTL == 3600             \* NewCache(time.Hour)
SleepInterval == 21600  \* flag -i, default 6*time.Hour
TickStep == TTL \div 2  \* granularity of the harness clock

-----------------------------------------------------------------------------
(* Strings *)

Digits == <<"0", "1", "2", "3", "4", "5", "6", "7", "8", "9">>

isDigit(c) == \E i \in 1..10 : Digits[i] = c

DigitVal(c) == (CHOOSE i \in 1..10 : Digits[i] = c) - 1

RECURSIVE Split(_, _)
\* strings.Split(s, sep) for a one-character sep: always at least one item
Split(s, sep) ==
    IF \A i \in 1..Len(s) : s[i] # sep
    THEN <<s>>
    ELSE LET i == CHOOSE j \in 1..Len(s) :
                      s[j] = sep /\ \A k \in 1..(j - 1) : s[k] # sep
         IN  <<SubSeq(s, 1, i - 1)>> \o Split(SubSeq(s, i + 1, Len(s)), sep)

RECURSIVE Join(_, _)
\* strings.Join(items, sep)
Join(items, sep) ==
    IF Len(items) = 0 THEN <<>>
    ELSE IF Len(items) = 1 THEN items[1]
    ELSE items[1] \o sep \o Join(Tail(items), sep)

RECURSIVE digitsValue(_, _)
\* value of a string of decimal digits, most significant first
digitsValue(s, acc) ==
    IF Len(s) = 0 THEN acc ELSE digitsValue(Tail(s), acc * 10 + DigitVal(s[1]))

allDigits(s) == \A i \in 1..Len(s) : isDigit(s[i])

hasSign(s) == Len(s) > 0 /\ s[1] \in {"+", "-"}

unsigned(s) == IF hasSign(s) THEN Tail(s) ELSE s

isNegative(s) == Len(s) > 0 /\ s[1] = "-"

\* the integer with sign of s and digits body
signedInt(s, body) ==
    IF Len(body) = 0 \/ ~allDigits(body)
    THEN [ok |-> FALSE, v |-> 0]
    ELSE [ok |-> TRUE,
          v |-> IF isNegative(s) THEN 0 - digitsValue(body, 0)
                ELSE digitsValue(body, 0)]

\* strconv.ParseInt(s, 10, 64): optional sign, then one or more digits (the
\* inputs of the model have at most nine digits, so the value is in range)
ParseInt(s) == signedInt(s, unsigned(s))

RECURSIVE stripZeros(_, _)
\* num / 10^scale with the trailing zeros of the fraction removed
stripZeros(num, scale) ==
    IF scale > 0 /\ num % 10 = 0 THEN stripZeros(num \div 10, scale - 1)
    ELSE [num |-> num, scale |-> scale]

\* a float64: the finite decimal num / 10^scale, or +Inf, -Inf or NaN
Float(class, d) == [class |-> class, num |-> d.num, scale |-> d.scale]

NoFloat == [ok |-> FALSE, v |-> Float("finite", [num |-> 0, scale |-> 0])]

\* the decimal with the sign of s, integer digits int and fraction digits frac
signedDecimal(s, int, frac) ==
    IF Len(int) + Len(frac) = 0 \/ ~allDigits(int) \/ ~allDigits(frac)
    THEN NoFloat
    ELSE [ok |-> TRUE,
          v |-> Float("finite",
                      stripZeros(IF isNegative(s)
                                 THEN 0 - digitsValue(int \o frac, 0)
                                 ELSE digitsValue(int \o frac, 0),
                                 Len(frac)))]

\* the decimal of s whose unsigned part splits on "." into parts
decimalOf(s, parts) ==
    IF Len(parts) > 2 THEN NoFloat
    ELSE IF Len(parts) = 2 THEN signedDecimal(s, parts[1], parts[2])
    ELSE signedDecimal(s, parts[1], <<>>)

UpperCase == <<"A", "F", "I", "N", "T", "Y">>

LowerCase == <<"a", "f", "i", "n", "t", "y">>

\* the lower case of the letters of "infinity" and "nan"
lower(c) ==
    IF \E i \in 1..Len(UpperCase) : UpperCase[i] = c
    THEN LowerCase[CHOOSE i \in 1..Len(UpperCase) : UpperCase[i] = c]
    ELSE c

RECURSIVE commonPrefixLenIgnoreCase(_, _)
\* strconv.commonPrefixLenIgnoreCase(s, prefix), prefix in lower case
commonPrefixLenIgnoreCase(s, prefix) ==
    IF Len(s) = 0 \/ Len(prefix) = 0 THEN 0
    ELSE IF lower(s[1]) # prefix[1] THEN 0
    ELSE 1 + commonPrefixLenIgnoreCase(Tail(s), Tail(prefix))

Infinity == <<"i", "n", "f", "i", "n", "i", "t", "y">>

NaN == <<"n", "a", "n">>

\* the characters of body that the case 'i' of strconv.special consumes:
\* "inf" or "infinity", else none
infLen(n) == IF n = 8 THEN 8 ELSE IF n >= 3 THEN 3 ELSE 0

\* strconv.special on the whole of s: a signed or unsigned infinity, or an
\* unsigned NaN, with nothing after it
special(s) ==
    IF Len(s) = 0 THEN [ok |-> FALSE, class |-> "finite"]
    ELSE IF hasSign(s) \/ lower(s[1]) = "i"
    THEN IF infLen(commonPrefixLenIgnoreCase(unsigned(s), Infinity)) > 0
            /\ infLen(commonPrefixLenIgnoreCase(unsigned(s), Infinity))
                   = Len(unsigned(s))
         THEN [ok |-> TRUE, class |-> IF isNegative(s) THEN "-Inf" ELSE "+Inf"]
         ELSE [ok |-> FALSE, class |-> "finite"]
    ELSE IF lower(s[1]) = "n"
    THEN [ok |-> commonPrefixLenIgnoreCase(s, NaN) = 3 /\ Len(s) = 3,
          class |-> "NaN"]
    ELSE [ok |-> FALSE, class |-> "finite"]

\* strconv.ParseFloat(s, 64): Inf, Infinity and NaN in any case, else a
\* decimal literal [sign] digits [ . digits ], whose value is the exact
\* decimal num / 10^scale
ParseFloat(s) ==
    IF special(s).ok
    THEN [ok |-> TRUE, v |-> Float(special(s).class, [num |-> 0, scale |-> 0])]
    ELSE decimalOf(s, Split(unsigned(s), "."))

TrueLiterals == {<<"1">>, <<"t">>, <<"T">>, <<"T", "R", "U", "E">>,
                 <<"t", "r", "u", "e">>, <<"T", "r", "u", "e">>}

FalseLiterals == {<<"0">>, <<"f">>, <<"F">>, <<"F", "A", "L", "S", "E">>,
                  <<"f", "a", "l", "s", "e">>, <<"F", "a", "l", "s", "e">>}

\* strconv.ParseBool(s)
ParseBool(s) ==
    IF s \in TrueLiterals THEN [ok |-> TRUE, v |-> TRUE]
    ELSE IF s \in FalseLiterals THEN [ok |-> TRUE, v |-> FALSE]
    ELSE [ok |-> FALSE, v |-> FALSE]

RECURSIVE natDigits(_)
natDigits(n) ==
    IF n < 10 THEN <<Digits[n + 1]>>
    ELSE natDigits(n \div 10) \o <<Digits[(n % 10) + 1]>>

\* strconv.FormatInt(n, 10), also the verb %d of fmt.Sprintf
FormatInt(n) == IF n < 0 THEN <<"-">> \o natDigits(0 - n) ELSE natDigits(n)

\* strconv.FormatBool(b)
FormatBool(b) ==
    IF b THEN <<"t", "r", "u", "e">> ELSE <<"f", "a", "l", "s", "e">>

-----------------------------------------------------------------------------
(* time.Parse("2/1/2006 15:04:05", value), as seconds since the Unix epoch *)

\* time.getnum: one or two digits (exactly two when fixed)
getnum(s, fixed) ==
    IF Len(s) = 0 \/ ~isDigit(s[1])
    THEN [ok |-> FALSE, n |-> 0, rest |-> s]
    ELSE IF Len(s) < 2 \/ ~isDigit(s[2])
    THEN IF fixed THEN [ok |-> FALSE, n |-> 0, rest |-> s]
         ELSE [ok |-> TRUE, n |-> DigitVal(s[1]), rest |-> Tail(s)]
    ELSE [ok |-> TRUE, n |-> DigitVal(s[1]) * 10 + DigitVal(s[2]),
          rest |-> SubSeq(s, 3, Len(s))]

\* the four-digit year of the layout element 2006
getyear(s) ==
    IF Len(s) < 4 \/ ~allDigits(SubSeq(s, 1, 4))
    THEN [ok |-> FALSE, n |-> 0, rest |-> s]
    ELSE [ok |-> TRUE, n |-> digitsValue(SubSeq(s, 1, 4), 0),
          rest |-> SubSeq(s, 5, Len(s))]

RECURSIVE cutspace(_)
\* time.cutspace: s without its leading spaces
cutspace(s) == IF Len(s) > 0 /\ s[1] = " " THEN cutspace(Tail(s)) ELSE s

\* time.skip(s, c) for a literal character c of the layout: a space of the
\* layout matches the end of s or a run of spaces, another character itself
getlit(s, c) ==
    IF c = " "
    THEN IF Len(s) > 0 /\ s[1] # " "
         THEN [ok |-> FALSE, n |-> 0, rest |-> s]
         ELSE [ok |-> TRUE, n |-> 0, rest |-> cutspace(s)]
    ELSE IF Len(s) > 0 /\ s[1] = c
    THEN [ok |-> TRUE, n |-> 0, rest |-> Tail(s)]
    ELSE [ok |-> FALSE, n |-> 0, rest |-> s]

isLeap(y) == y % 4 = 0 /\ (y % 100 # 0 \/ y % 400 = 0)

daysIn(m, y) ==
    IF m = 2 THEN (IF isLeap(y) THEN 29 ELSE 28)
    ELSE IF m \in {4, 6, 9, 11} THEN 30 ELSE 31

\* days from 1970-01-01 to the civil date y-m-d
daysFromCivil(y, m, d) ==
    LET yy == IF m <= 2 THEN y - 1 ELSE y
        era == yy \div 400
        yoe == yy - era * 400
        mp == IF m > 2 THEN m - 3 ELSE m + 9
        doy == (153 * mp + 2) \div 5 + d - 1
        doe == yoe * 365 + yoe \div 4 - yoe \div 100 + doy
    IN  era * 146097 + doe - 719468

\* the chunks of the layout "2/1/2006 15:04:05"
Layout == <<"2", "/", "1", "/", "2006", " ", "15", ":", "04", ":", "05">>

\* what the layout chunk std reads at the head of s
readChunk(std, s) ==
    IF std \in {"2", "1", "15"} THEN getnum(s, FALSE)
    ELSE IF std \in {"04", "05"} THEN getnum(s, TRUE)
    ELSE IF std = "2006" THEN getyear(s)
    ELSE getlit(s, std)

\* is n in the range of the chunk std (the day is checked at the end)
inRange(std, n) ==
    IF std = "1" THEN n >= 1 /\ n <= 12
    ELSE IF std = "15" THEN n < 24
    ELSE IF std \in {"04", "05"} THEN n < 60
    ELSE TRUE

\* the parse state after the chunk std read r
afterChunk(st, std, r) ==
    IF ~r.ok \/ ~inRange(std, r.n) THEN [st EXCEPT !.ok = FALSE]
    ELSE IF std \in DOMAIN st.f
    THEN [st EXCEPT !.rest = r.rest, !.f = [@ EXCEPT ![std] = r.n]]
    ELSE [st EXCEPT !.rest = r.rest]

RECURSIVE parseLayout(_, _)
\* the loop of time.Parse over the chunks of the layout from chunk i on
parseLayout(i, st) ==
    IF i > Len(Layout) \/ ~st.ok THEN st
    ELSE parseLayout(i + 1, afterChunk(st, Layout[i], readChunk(Layout[i], st.rest)))

\* the time of the parse state st: extra text and the day of the month are
\* checked after the loop
timeOf(st) ==
    IF ~st.ok \/ Len(st.rest) > 0 THEN [ok |-> FALSE, v |-> 0]
    ELSE IF st.f["2"] < 1 \/ st.f["2"] > daysIn(st.f["1"], st.f["2006"])
    THEN [ok |-> FALSE, v |-> 0]
    ELSE [ok |-> TRUE,
          v |-> daysFromCivil(st.f["2006"], st.f["1"], st.f["2"]) * 86400
                + st.f["15"] * 3600 + st.f["04"] * 60 + st.f["05"]]

timeParse(s) ==
    timeOf(parseLayout(1, [ok |-> TRUE, rest |-> s,
                           f |-> [c \in {"2", "1", "2006", "15", "04", "05"} |-> 0]]))

-----------------------------------------------------------------------------
(* The record cache *)

EmptyMap == [k \in {} |-> 0]

\* m with m[k] = v
MapSet(m, k, v) == [x \in DOMAIN m \cup {k} |-> IF x = k THEN v ELSE m[x]]

\* Get, were it to delete the entry it finds expired
Get_EvictsExpired(c, k, t) ==
    IF k \in DOMAIN c
    THEN IF t - c[k].Ts > TTL
         THEN [entries |-> [x \in DOMAIN c \ {k} |-> c[x]], recs |-> <<>>,
               found |-> FALSE]
         ELSE [entries |-> c, recs |-> c[k].Records, found |-> TRUE]
    ELSE [entries |-> c, recs |-> <<>>, found |-> FALSE]

\* Cache.Get: the records and the found flag it returns, and the entries it
\* leaves behind; a nil slice is the empty sequence
Get(c, k, t) ==
    IF k \in DOMAIN c
    THEN IF t - c[k].Ts > TTL
         THEN [entries |-> c, recs |-> <<>>, found |-> FALSE]
         ELSE [entries |-> c, recs |-> c[k].Records, found |-> TRUE]
    ELSE [entries |-> c, recs |-> <<>>, found |-> FALSE]

\* Cache.Put: the entries it leaves behind.  On a miss the new CacheEntry is
\* assigned to the local variable `entry` only and c.entries is not written.
Put(c, k, v, t) ==
    IF k \in DOMAIN c
    THEN [c EXCEPT ![k].Records = Append(@, v)]
    ELSE LET entry == [Records |-> <<v>>, Ts |-> t]
         IN  c

-----------------------------------------------------------------------------
(* HTTP responses: http.Get fails (err), or yields a body of lines whose   *)
(* reading may fail after the last line (readErr) instead of reaching EOF. *)

Response(err, lines, readErr) == [err |-> err, lines |-> lines, readErr |-> readErr]

\* index of the first non-empty line at or after i, or Len(lines) + 1:
\* encoding/csv skips empty lines
nextRecord(lines, i) ==
    IF \E j \in i..Len(lines) : Len(lines[j]) > 0
    THEN CHOOSE j \in i..Len(lines) :
             Len(lines[j]) > 0 /\ \A k \in i..(j - 1) : Len(lines[k]) = 0
    ELSE Len(lines) + 1

-----------------------------------------------------------------------------
(* The price feed *)

\* the Record of items whose fields parsed as id, prezzo, self and data
recordOf(items, id, prezzo, self, data) ==
    IF ~id.ok \/ ~prezzo.ok \/ ~self.ok \/ ~data.ok
    THEN [ok |-> FALSE, r |-> <<>>]
    ELSE [ok |-> TRUE,
          r |-> [IDImpianto |-> id.v, Carburante |-> items[2],
                 Prezzo |-> prezzo.v, SelfService |-> self.v,
                 DataComunicazione |-> data.v]]

\* parseRecord
parseRecord(items) ==
    IF Len(items) # 5 THEN [ok |-> FALSE, r |-> <<>>]
    ELSE recordOf(items, ParseInt(items[1]), ParseFloat(items[3]),
                  ParseBool(items[4]), timeParse(items[5]))

\* the cache key of a record: fmt.Sprintf("%d-%d", id, unix)
cacheKey(r) == FormatInt(r.IDImpianto) \o <<"-">> \o FormatInt(r.DataComunicazione)

\* what refreshRecords returns, with the entries of the cache and the Put
\* calls it made
PricesOk(recs, c, log) == [err |-> FALSE, records |-> recs, entries |-> c, puts |-> log]

\* the failure of refreshRecords, were the Put calls made only once every row
\* of the batch had parsed
PricesErr_PutsAtEnd(c, log) ==
    [err |-> TRUE, records |-> <<>>, entries |-> c, puts |-> <<>>]

PricesErr(c, log) == [err |-> TRUE, records |-> <<>>, entries |-> c, puts |-> log]

RECURSIVE priceRows(_, _, _, _, _, _, _)

\* one turn of the read loop, were it to skip a row that does not parse
priceRow_SkipsBadRow(lines, j, readErr, recs, c, log, t, items, rec) ==
    IF Len(items) # 5 THEN PricesErr(c, log)
    ELSE IF ~rec.ok THEN priceRows(lines, j + 1, readErr, recs, c, log, t)
    ELSE priceRows(lines, j + 1, readErr, Append(recs, rec.r),
                   Put(c, cacheKey(rec.r), rec.r, t),
                   Append(log, <<cacheKey(rec.r), rec.r>>), t)

\* one turn of the read loop: items are the fields of line j, rec their parse
priceRow(lines, j, readErr, recs, c, log, t, items, rec) ==
    IF Len(items) # 5 THEN PricesErr(c, log)        \* r.FieldsPerRecord = 5
    ELSE IF ~rec.ok THEN PricesErr(c, log)
    ELSE priceRows(lines, j + 1, readErr, Append(recs, rec.r),
                   Put(c, cacheKey(rec.r), rec.r, t),
                   Append(log, <<cacheKey(rec.r), rec.r>>), t)

\* the read loop of refreshRecords at the first record j at or after a line
priceNext(lines, j, readErr, recs, c, log, t) ==
    IF j > Len(lines)
    THEN IF readErr THEN PricesErr(c, log) ELSE PricesOk(recs, c, log)
    ELSE priceRow(lines, j, readErr, recs, c, log, t,
                  Split(lines[j], ";"), parseRecord(Split(lines[j], ";")))

\* the read loop of refreshRecords from line i on
priceRows(lines, i, readErr, recs, c, log, t) ==
    priceNext(lines, nextRecord(lines, i), readErr, recs, c, log, t)

\* refreshRecords(cache) on the response resp at time t
refreshRecords(c, resp, t) ==
    IF resp.err THEN PricesErr(c, <<>>)
    ELSE IF Len(resp.lines) < 2 THEN PricesErr(c, <<>>)     \* br.ReadLine() twice
    ELSE priceRows(resp.lines, 3, resp.readErr, <<>>, c, <<>>, t)

-----------------------------------------------------------------------------
(* The station feed *)

\* the Station literal built from the items of a row
Station(id, items, address) ==
    [ID |-> id, Gestore |-> items[2], Bandiera |-> items[3], Tipo |-> items[4],
     Nome |-> items[5], Indirizzo |-> address, Comune |-> items[7],
     Provincia |-> items[8], Lat |-> items[9], Long |-> items[10]]

StationsOk(m) == [err |-> FALSE, panic |-> FALSE, stations |-> m]

StationsErr == [err |-> TRUE, panic |-> FALSE, stations |-> EmptyMap]

\* a run-time panic (index out of range) inside updateStations
StationsPanic == [err |-> FALSE, panic |-> TRUE, stations |-> EmptyMap]

\* errors.Is(err, &csv.ParseError{}): the target is a fresh pointer, equal to
\* no error of the chain, and *csv.ParseError has no Is method
errorsIsParseError == FALSE

\* the empty string
EmptyField == <<>>

RECURSIVE csvRows(_, _, _, _)

\* one turn of the read loop: items are the fields of line j, id is items[0]
csvRow(lines, j, readErr, stationMap, items, id) ==
    IF Len(items) # 10 /\ errorsIsParseError        \* r.FieldsPerRecord = 10
    THEN csvRows(lines, j + 1, readErr, stationMap)
    ELSE IF ~id.ok THEN StationsErr
    ELSE IF Len(items) < 10 THEN StationsPanic      \* items[1] .. items[9]
    ELSE csvRows(lines, j + 1, readErr,
                 MapSet(stationMap, id.v, Station(id.v, items, items[6])))

\* the read loop at the first record j at or after a line
csvNext(lines, j, readErr, stationMap) ==
    IF j > Len(lines)
    THEN IF readErr
         \* err is not io.EOF: r.Read() returns the record of the empty rest
         \* of the body, one empty field, with the error
         THEN csvRow(lines, j, readErr, stationMap, <<EmptyField>>,
                     ParseInt(EmptyField))
         ELSE StationsOk(stationMap)
    ELSE csvRow(lines, j, readErr, stationMap,
                Split(lines[j], ";"), ParseInt(Split(lines[j], ";")[1]))

\* the read loop of updateStations (src/main.go) from line i on
csvRows(lines, i, readErr, stationMap) ==
    csvNext(lines, nextRecord(lines, i), readErr, stationMap)

\* updateStations of src/main.go on the response resp
updateStationsCSV(resp) ==
    IF resp.err THEN StationsErr
    ELSE IF Len(resp.lines) < 2 THEN StationsErr    \* br.ReadLine() twice
    ELSE csvRows(resp.lines, 3, resp.readErr, EmptyMap)

\* the address of a row of 10 or 11 items
addressOf(items) ==
    IF Len(items) = 10 THEN items[6]
    ELSE Join(SubSeq(items, 6, 6), <<" ", "|", " ">>)

RECURSIVE scanRows(_, _, _, _, _)

\* one turn of the scan loop after the header test: items are the fields of
\* line i, id is items[0]
scanRow(lines, i, lineno, readErr, stationMap, items, id) ==
    IF Len(items) = 0
    THEN scanRows(lines, i + 1, lineno, readErr, stationMap)
    ELSE IF ~id.ok THEN StationsErr
    ELSE IF id.v \in DOMAIN stationMap /\ Len(items) < 4
    THEN StationsPanic                  \* items[3] of the duplicate warning
    ELSE IF Len(items) \notin {10, 11} THEN StationsErr
    ELSE scanRows(lines, i + 1, lineno, readErr,
                  MapSet(stationMap, id.v, Station(id.v, items, addressOf(items))))

\* the scanner.Scan() loop of updateStations (src/unnamed/part_001) from line
\* i on; lineno is passed on as it is, the loop never assigns it
scanRows(lines, i, lineno, readErr, stationMap) ==
    IF i > Len(lines)
    THEN IF readErr THEN StationsErr ELSE StationsOk(stationMap)   \* scanner.Err()
    ELSE IF lineno = 1
    THEN scanRows(lines, i + 1, lineno, readErr, stationMap)       \* skip header
    ELSE scanRow(lines, i, lineno, readErr, stationMap,
                 Split(lines[i], ";"), ParseInt(Split(lines[i], ";")[1]))

\* updateStations of src/unnamed/part_001 on the response resp
updateStationsScanner(resp) ==
    IF resp.err THEN StationsErr
    ELSE scanRows(resp.lines, 1, 1, resp.readErr, EmptyMap)

\* updateStations of the build b
updateStations(b, resp) ==
    IF b = "csv" THEN updateStationsCSV(resp) ELSE updateStationsScanner(resp)

-----------------------------------------------------------------------------
(* The lines the feeds of the model are made of *)

\* a header line
Header ==
    <<"h", ";", "h">>

\* an empty line
EmptyLine == <<>>

\* 101;benzina;1.899;true;5/3/2024 8:00:00
PriceA ==
    <<"1", "0", "1", ";", "b", "e", "n", "z", "i", "n", "a", ";", "1", ".",
      "8", "9", "9", ";", "t", "r", "u", "e", ";", "5", "/", "3", "/", "2",
      "0", "2", "4", " ", "8", ":", "0", "0", ":", "0", "0">>

\* 101;gasolio;1.7;0;5/3/2024 8:00:00
PriceA2 ==
    <<"1", "0", "1", ";", "g", "a", "s", "o", "l", "i", "o", ";", "1", ".",
      "7", ";", "0", ";", "5", "/", "3", "/", "2", "0", "2", "4", " ", "8",
      ":", "0", "0", ":", "0", "0">>

\* 102;gasolio;1.750;false;15/12/2023 18:30:05
PriceB ==
    <<"1", "0", "2", ";", "g", "a", "s", "o", "l", "i", "o", ";", "1", ".",
      "7", "5", "0", ";", "f", "a", "l", "s", "e", ";", "1", "5", "/", "1",
      "2", "/", "2", "0", "2", "3", " ", "1", "8", ":", "3", "0", ":", "0",
      "5">>

\* 101;benzina;1.95;true;6/3/2024 8:00:00: the tuple of PriceA a day later, at another
\* price
PriceA3 ==
    <<"1", "0", "1", ";", "b", "e", "n", "z", "i", "n", "a", ";", "1", ".",
      "9", "5", ";", "t", "r", "u", "e", ";", "6", "/", "3", "/", "2", "0",
      "2", "4", " ", "8", ":", "0", "0", ":", "0", "0">>

\* 7;gpl;0.7;true;5/3/2024 8:00:01
PriceC ==
    <<"7", ";", "g", "p", "l", ";", "0", ".", "7", ";", "t", "r", "u", "e",
      ";", "5", "/", "3", "/", "2", "0", "2", "4", " ", "8", ":", "0", "0",
      ":", "0", "1">>

\* 101;benzina;1.899;true
PriceFour ==
    <<"1", "0", "1", ";", "b", "e", "n", "z", "i", "n", "a", ";", "1", ".",
      "8", "9", "9", ";", "t", "r", "u", "e">>

\* 101;benzina;1.899;true;5/3/2024 8:00:00;x
PriceSix ==
    <<"1", "0", "1", ";", "b", "e", "n", "z", "i", "n", "a", ";", "1", ".",
      "8", "9", "9", ";", "t", "r", "u", "e", ";", "5", "/", "3", "/", "2",
      "0", "2", "4", " ", "8", ":", "0", "0", ":", "0", "0", ";", "x">>

\* x1;benzina;1.899;true;5/3/2024 8:00:00
PriceBadId ==
    <<"x", "1", ";", "b", "e", "n", "z", "i", "n", "a", ";", "1", ".", "8",
      "9", "9", ";", "t", "r", "u", "e", ";", "5", "/", "3", "/", "2", "0",
      "2", "4", " ", "8", ":", "0", "0", ":", "0", "0">>

\* 101;benzina;-Infinity;true;5/3/2024 8:00:00: a price strconv.ParseFloat reads as -Inf
PriceInf ==
    <<"1", "0", "1", ";", "b", "e", "n", "z", "i", "n", "a", ";", "-", "I",
      "n", "f", "i", "n", "i", "t", "y", ";", "t", "r", "u", "e", ";", "5",
      "/", "3", "/", "2", "0", "2", "4", " ", "8", ":", "0", "0", ":", "0",
      "0">>

\* 102;gasolio;nan;false;15/12/2023 18:30:05: a price strconv.ParseFloat reads as NaN
PriceNaN ==
    <<"1", "0", "2", ";", "g", "a", "s", "o", "l", "i", "o", ";", "n", "a",
      "n", ";", "f", "a", "l", "s", "e", ";", "1", "5", "/", "1", "2", "/",
      "2", "0", "2", "3", " ", "1", "8", ":", "3", "0", ":", "0", "5">>

\* 7;gpl;0.7;true;5/3/2024  8:00:01: the record of PriceC, with two spaces
\* between the date and the time
PriceSpaces ==
    <<"7", ";", "g", "p", "l", ";", "0", ".", "7", ";", "t", "r", "u", "e",
      ";", "5", "/", "3", "/", "2", "0", "2", "4", " ", " ", "8", ":", "0",
      "0", ":", "0", "1">>

\* 101;benzina;1,899;true;5/3/2024 8:00:00
PriceBadPrezzo ==
    <<"1", "0", "1", ";", "b", "e", "n", "z", "i", "n", "a", ";", "1", ",",
      "8", "9", "9", ";", "t", "r", "u", "e", ";", "5", "/", "3", "/", "2",
      "0", "2", "4", " ", "8", ":", "0", "0", ":", "0", "0">>

\* 101;benzina;1.899;si;5/3/2024 8:00:00
PriceBadSelf ==
    <<"1", "0", "1", ";", "b", "e", "n", "z", "i", "n", "a", ";", "1", ".",
      "8", "9", "9", ";", "s", "i", ";", "5", "/", "3", "/", "2", "0", "2",
      "4", " ", "8", ":", "0", "0", ":", "0", "0">>

\* 101;benzina;1.899;true;31/4/2024 8:00:00
PriceBadData ==
    <<"1", "0", "1", ";", "b", "e", "n", "z", "i", "n", "a", ";", "1", ".",
      "8", "9", "9", ";", "t", "r", "u", "e", ";", "3", "1", "/", "4", "/",
      "2", "0", "2", "4", " ", "8", ":", "0", "0", ":", "0", "0">>

\* 101;Rossi;Agip;Stradale;Bar;Via A;Roma;RM;41.9;12.5
StationA ==
    <<"1", "0", "1", ";", "R", "o", "s", "s", "i", ";", "A", "g", "i", "p",
      ";", "S", "t", "r", "a", "d", "a", "l", "e", ";", "B", "a", "r", ";",
      "V", "i", "a", " ", "A", ";", "R", "o", "m", "a", ";", "R", "M", ";",
      "4", "1", ".", "9", ";", "1", "2", ".", "5">>

\* 101;Verdi;Esso;Autostradale;Sud;Via B;Bari;BA;41.1;16.8
StationA2 ==
    <<"1", "0", "1", ";", "V", "e", "r", "d", "i", ";", "E", "s", "s", "o",
      ";", "A", "u", "t", "o", "s", "t", "r", "a", "d", "a", "l", "e", ";",
      "S", "u", "d", ";", "V", "i", "a", " ", "B", ";", "B", "a", "r", "i",
      ";", "B", "A", ";", "4", "1", ".", "1", ";", "1", "6", ".", "8">>

\* 102;Neri;Q8;Stradale;Est;Via C;Pisa;PI;43.7;10.4
StationB ==
    <<"1", "0", "2", ";", "N", "e", "r", "i", ";", "Q", "8", ";", "S", "t",
      "r", "a", "d", "a", "l", "e", ";", "E", "s", "t", ";", "V", "i", "a",
      " ", "C", ";", "P", "i", "s", "a", ";", "P", "I", ";", "4", "3", ".",
      "7", ";", "1", "0", ".", "4">>

\* 7;Bruni;IP;Stradale;Lago;Via D;Via D 2;Como;CO;45.8;9.1
StationEleven ==
    <<"7", ";", "B", "r", "u", "n", "i", ";", "I", "P", ";", "S", "t", "r",
      "a", "d", "a", "l", "e", ";", "L", "a", "g", "o", ";", "V", "i", "a",
      " ", "D", ";", "V", "i", "a", " ", "D", " ", "2", ";", "C", "o", "m",
      "o", ";", "C", "O", ";", "4", "5", ".", "8", ";", "9", ".", "1">>

\* 101;Rossi;Agip;Stradale;Bar;Via A;Roma;RM;41.9
StationNine ==
    <<"1", "0", "1", ";", "R", "o", "s", "s", "i", ";", "A", "g", "i", "p",
      ";", "S", "t", "r", "a", "d", "a", "l", "e", ";", "B", "a", "r", ";",
      "V", "i", "a", " ", "A", ";", "R", "o", "m", "a", ";", "R", "M", ";",
      "4", "1", ".", "9">>

\* 102;Neri;Q8;Stradale;Est;Via C;Via C 2;Pisa;PI;43.7;10.4;x
StationTwelve ==
    <<"1", "0", "2", ";", "N", "e", "r", "i", ";", "Q", "8", ";", "S", "t",
      "r", "a", "d", "a", "l", "e", ";", "E", "s", "t", ";", "V", "i", "a",
      " ", "C", ";", "V", "i", "a", " ", "C", " ", "2", ";", "P", "i", "s",
      "a", ";", "P", "I", ";", "4", "3", ".", "7", ";", "1", "0", ".", "4",
      ";", "x">>

\* id;Rossi;Agip;Stradale;Bar;Via A;Roma;RM;41.9;12.5
StationBadId ==
    <<"i", "d", ";", "R", "o", "s", "s", "i", ";", "A", "g", "i", "p", ";",
      "S", "t", "r", "a", "d", "a", "l", "e", ";", "B", "a", "r", ";", "V",
      "i", "a", " ", "A", ";", "R", "o", "m", "a", ";", "R", "M", ";", "4",
      "1", ".", "9", ";", "1", "2", ".", "5">>

\* 101;Rossi
StationTwo ==
    <<"1", "0", "1", ";", "R", "o", "s", "s", "i">>


-----------------------------------------------------------------------------
(* The responses the model draws from *)

SeqsUpTo(S, n) == UNION {[1..k -> S] : k \in 0..n}

NoResponse == Response(FALSE, <<>>, FALSE)

TransportFailure == Response(TRUE, <<>>, FALSE)

\* the price responses of the refresh loop
PriceResponses ==
    {TransportFailure,
     Response(FALSE, <<Header, Header, PriceA>>, FALSE),
     Response(FALSE, <<Header, Header, PriceA3>>, FALSE),
     Response(FALSE, <<Header, Header, PriceA, PriceB>>, FALSE),
     Response(FALSE, <<Header, Header, PriceC, PriceA2>>, FALSE),
     Response(FALSE, <<Header, Header, PriceB, PriceBadId>>, FALSE),
     Response(FALSE, <<Header, Header, PriceA>>, TRUE)}

\* the station responses of the refresh loop
StationResponses ==
    {TransportFailure,
     Response(FALSE, <<Header, StationA>>, FALSE),
     Response(FALSE, <<Header, Header, StationA>>, FALSE),
     Response(FALSE, <<Header, Header, StationA, StationEleven>>, FALSE),
     Response(FALSE, <<Header, Header, StationBadId>>, FALSE),
     Response(FALSE, <<Header, Header, StationTwo>>, FALSE),
     Response(FALSE, <<Header, StationB>>, TRUE)}

PriceLines ==
    {PriceA, PriceA2, PriceB, PriceC, PriceFour, PriceSix, PriceBadId,
     PriceBadPrezzo, PriceBadSelf, PriceBadData, PriceInf, PriceNaN,
     PriceSpaces, EmptyLine}

StationLines ==
    {StationA, StationA2, StationB, StationEleven, StationNine, StationTwelve,
     StationBadId, StationTwo, EmptyLine}

\* every price response with two header lines and at most MaxRows lines after
\* them, and the ones with fewer than two lines
AllPriceResponses ==
    {Response(FALSE, <<Header, Header>> \o rows, re) :
         rows \in SeqsUpTo(PriceLines, MaxRows), re \in BOOLEAN}
    \cup {TransportFailure, NoResponse, Response(FALSE, <<Header>>, FALSE)}

\* every station response with one or two header lines and at most MaxRows
\* lines after them
AllStationResponses ==
    {Response(FALSE, hs \o rows, re) :
         hs \in {<<Header>>, <<Header, Header>>},
         rows \in SeqsUpTo(StationLines, MaxRows), re \in BOOLEAN}
    \cup {TransportFailure}

-----------------------------------------------------------------------------
(* The refresh goroutine *)

\* the label values and the value of the Set call for record r
joinTuple(r, stationMap) ==
    LET ok == r.IDImpianto \in DOMAIN stationMap
        station == stationMap[r.IDImpianto]
    IN  [labels |-> <<FormatInt(r.IDImpianto), r.Carburante,
                      FormatBool(r.SelfService)>>
                    \o (IF ok
                        THEN <<station.Nome, station.Tipo, station.Comune,
                               station.Provincia, station.Bandiera>>
                        ELSE <<<<>>, <<>>, <<>>, <<>>, <<>>>>),
         value |-> r.Prezzo]

\* the indices of the records of recs that have a station, in order
RECURSIVE hits(_, _, _)
hits(recs, stationMap, i) ==
    IF i > Len(recs) THEN <<>>
    ELSE IF recs[i].IDImpianto \in DOMAIN stationMap
    THEN <<i>> \o hits(recs, stationMap, i + 1)
    ELSE hits(recs, stationMap, i + 1)

\* the loop over records, were it to skip a record that has no station
joinAll_SkipsMisses(recs, stationMap) ==
    [i \in 1..Len(hits(recs, stationMap, 1)) |->
        joinTuple(recs[hits(recs, stationMap, 1)[i]], stationMap)]

\* the Set calls of `for _, record := range records`, in order
joinAll(recs, stationMap) ==
    [i \in 1..Len(recs) |-> joinTuple(recs[i], stationMap)]

RECURSIVE setAll_KeepsFirst(_, _)
\* the Set calls, were a Set to leave a tuple that has a value as it is
setAll_KeepsFirst(g, sets) ==
    IF Len(sets) = 0 THEN g
    ELSE IF sets[1].labels \in DOMAIN g
    THEN setAll_KeepsFirst(g, Tail(sets))
    ELSE setAll_KeepsFirst(MapSet(g, sets[1].labels, sets[1].value), Tail(sets))

RECURSIVE setAll(_, _)
\* the gauge after the Set calls sets, in order
setAll(g, sets) ==
    IF Len(sets) = 0 THEN g
    ELSE setAll(MapSet(g, sets[1].labels, sets[1].value), Tail(sets))

\* a caller that is in no call
NoCall == [pc |-> "idle", op |-> "none", k |-> <<>>, v |-> <<>>, ok |-> FALSE,
           tmp |-> <<>>, before |-> EmptyMap, recs |-> <<>>, found |-> FALSE]

NoGet == [called |-> FALSE, k |-> <<>>, at |-> 0, recs |-> <<>>, found |-> FALSE,
          before |-> EmptyMap, after |-> EmptyMap, put |-> <<>>, first |-> 0]

Init ==
    /\ build \in {"csv", "scanner"}
    /\ pc = "FetchPrices"
    /\ now = 0
    /\ entries = EmptyMap            \* NewCache(time.Hour)
    /\ records = <<>>
    /\ stations = EmptyMap
    /\ gauge = EmptyMap
    /\ emitted = <<>>
    /\ puts = <<>>
    /\ priceOutcome = "none"
    /\ stationOutcome = "none"
    /\ iter = 1
    /\ priceResp = NoResponse
    /\ stationResp = NoResponse
    /\ putHist = EmptyMap
    /\ getResult = NoGet
    /\ mu = 0
    /\ calls = [p \in 1..NCallers |-> NoCall]
    /\ started = 0

\* the goroutine after refreshRecords returned r for the response resp
afterPrices(resp, r) ==
    /\ priceResp' = resp
    /\ entries' = r.entries
    /\ puts' = r.puts
    /\ records' = r.records
    /\ priceOutcome' = IF r.err THEN "failed" ELSE "ok"
    /\ pc' = IF r.err THEN "Sleep" ELSE "FetchStations"

\* records, err := refreshRecords(cache), for a response of S
FetchPricesFrom(S) ==
    /\ pc = "FetchPrices"
    /\ \E resp \in S : afterPrices(resp, refreshRecords(entries, resp, now))
    /\ UNCHANGED <<build, now, stations, gauge, emitted, stationOutcome, iter,
                   stationResp, putHist, getResult, lockVars>>

\* the goroutine after updateStations returned u for the response resp
afterStations(resp, u) ==
    /\ stationResp' = resp
    /\ stations' = u.stations
    /\ stationOutcome' = IF u.panic THEN "panic"
                         ELSE IF u.err THEN "failed" ELSE "ok"
    /\ pc' = IF u.panic THEN "crashed"
             ELSE IF u.err THEN "Sleep" ELSE "JoinAndEmit"

\* stations, err := updateStations(), for a response of S
FetchStationsFrom(S) ==
    /\ pc = "FetchStations"
    /\ \E resp \in S : afterStations(resp, updateStations(build, resp))
    /\ UNCHANGED <<build, now, entries, records, gauge, emitted, puts,
                   priceOutcome, iter, priceResp, putHist, getResult,
                   lockVars>>

FetchPrices == FetchPricesFrom(PriceResponses)

FetchStations == FetchStationsFrom(StationResponses)

\* the value of a child gauge that was never Set
ZeroValue == Float("finite", [num |-> 0, scale |-> 0])

\* GaugeVec.WithLabelValues(labels...): the child of the tuple, made with the
\* value 0 when the vector has none
WithLabelValues(g, labels) ==
    IF labels \in DOMAIN g THEN g ELSE MapSet(g, labels, ZeroValue)

\* the head of one turn of the loop over records, whose Set calls are sets:
\* the call of WithLabelValues for the next record, or the end of the loop
\* when every record is done
childNext(sets) ==
    IF Len(emitted) < Len(sets)
    THEN /\ gauge' = WithLabelValues(gauge, sets[Len(emitted) + 1].labels)
         /\ pc' = "SetGauge"
    ELSE /\ pc' = "Sleep"
         /\ gauge' = gauge

\* the loop over records, up to the child gauge of the next record (the
\* gauge is read by the HTTP handler between any two calls)
JoinAndEmit ==
    /\ pc = "JoinAndEmit"
    /\ childNext(joinAll(records, stations))
    /\ UNCHANGED <<build, now, entries, records, stations, emitted, puts,
                   priceOutcome, stationOutcome, iter, priceResp, stationResp,
                   putHist, getResult, lockVars>>

\* the end of one turn of the loop over records, whose Set calls are sets:
\* the Set call on the child gauge
emitNext(sets) ==
    /\ emitted' = Append(emitted, sets[Len(emitted) + 1])
    /\ gauge' = setAll(gauge, <<sets[Len(emitted) + 1]>>)
    /\ pc' = "JoinAndEmit"

\* .Set(record.Prezzo) on the child gauge of the record
SetGauge ==
    /\ pc = "SetGauge"
    /\ emitNext(joinAll(records, stations))
    /\ UNCHANGED <<build, now, entries, records, stations, puts, priceOutcome,
                   stationOutcome, iter, priceResp, stationResp, putHist,
                   getResult, lockVars>>

\* break_loop: time.Sleep(*flagSleepInterval), then the next iteration
Sleep ==
    /\ pc = "Sleep"
    /\ iter < MaxIter
    /\ now' = now + SleepInterval
    /\ pc' = "FetchPrices"
    /\ iter' = iter + 1
    /\ records' = <<>>
    /\ stations' = EmptyMap
    /\ emitted' = <<>>
    /\ puts' = <<>>
    /\ priceOutcome' = "none"
    /\ stationOutcome' = "none"
    /\ priceResp' = NoResponse
    /\ stationResp' = NoResponse
    /\ UNCHANGED <<build, entries, gauge, putHist, getResult, lockVars>>

Next == FetchPrices \/ FetchStations \/ JoinAndEmit \/ SetGauge \/ Sleep

Spec == Init /\ [][Next]_vars

-----------------------------------------------------------------------------
(* The parsers on every feed of at most MaxRows lines after the header *)

NextPrices == FetchPricesFrom(AllPriceResponses)

\* refreshRecords applied once to every price response
SpecPrices == Init /\ [][NextPrices]_vars

NextStations ==
    \/ FetchPricesFrom(PriceResponses)
    \/ FetchStationsFrom(AllStationResponses)
    \/ JoinAndEmit
    \/ SetGauge

\* one iteration with every station response
SpecStations == Init /\ [][NextStations]_vars

NextOrder ==
    \/ FetchPricesFrom(AllPriceResponses)
    \/ FetchStationsFrom(StationResponses)
    \/ JoinAndEmit
    \/ SetGauge

\* one iteration with every price response
SpecOrder == Init /\ [][NextOrder]_vars

-----------------------------------------------------------------------------
(* The cache used through its two methods by a caller of the package *)

RecA == parseRecord(Split(PriceA, ";")).r

RecA2 == parseRecord(Split(PriceA2, ";")).r

RecB == parseRecord(Split(PriceB, ";")).r

RecA3 == parseRecord(Split(PriceA3, ";")).r

HarnessRecords == {RecA, RecA2}

HarnessKeys == {cacheKey(RecA), cacheKey(RecB)}

\* what was Put to key k so far, and when first
histAfterPut(h, k, v, t) ==
    IF k \in DOMAIN h
    THEN [h EXCEPT ![k].recs = Append(@, v)]
    ELSE MapSet(h, k, [recs |-> <<v>>, first |-> t])

\* cache.Put(k, v)
CachePut(k, v) ==
    /\ IF k \in DOMAIN putHist THEN Len(putHist[k].recs) < MaxPuts ELSE TRUE
    /\ entries' = Put(entries, k, v, now)
    /\ putHist' = histAfterPut(putHist, k, v, now)
    /\ UNCHANGED <<now, getResult, loopVars, lockVars>>

\* the observation of a call of Get(k) that returned g
observed(k, g) ==
    [called |-> TRUE, k |-> k, at |-> now, recs |-> g.recs, found |-> g.found,
     before |-> entries, after |-> g.entries,
     put |-> IF k \in DOMAIN putHist THEN putHist[k].recs ELSE <<>>,
     first |-> IF k \in DOMAIN putHist THEN putHist[k].first ELSE 0]

\* the cache after a call of Get(k) that returned g
afterGet(k, g) ==
    /\ entries' = g.entries
    /\ getResult' = observed(k, g)

\* cache.Get(k)
CacheGet(k) ==
    /\ afterGet(k, Get(entries, k, now))
    /\ UNCHANGED <<now, putHist, loopVars, lockVars>>

\* time passes
Tick ==
    /\ now < MaxTicks * TickStep
    /\ now' = now + TickStep
    /\ UNCHANGED <<entries, putHist, getResult, loopVars, lockVars>>

NextCache ==
    \/ \E k \in HarnessKeys, v \in HarnessRecords : CachePut(k, v)
    \/ \E k \in HarnessKeys : CacheGet(k)
    \/ Tick

\* a cache made by NewCache and used through Put and Get
SpecCache == Init /\ [][NextCache]_vars

\* the entries a key can hold at time 0
SomeEntries ==
    {[Records |-> rs, Ts |-> 0] : rs \in SeqsUpTo(HarnessRecords, 2) \ {<<>>}}

\* the caches over the keys of the harness
SomeCaches == UNION {[ks -> SomeEntries] : ks \in SUBSET HarnessKeys}

InitGet ==
    /\ build \in {"csv", "scanner"}
    /\ pc = "FetchPrices"
    /\ now = 0
    /\ entries \in SomeCaches
    /\ records = <<>>
    /\ stations = EmptyMap
    /\ gauge = EmptyMap
    /\ emitted = <<>>
    /\ puts = <<>>
    /\ priceOutcome = "none"
    /\ stationOutcome = "none"
    /\ iter = 1
    /\ priceResp = NoResponse
    /\ stationResp = NoResponse
    /\ putHist = EmptyMap
    /\ getResult = NoGet
    /\ mu = 0
    /\ calls = [p \in 1..NCallers |-> NoCall]
    /\ started = 0

NextGet ==
    \/ \E k \in HarnessKeys : CacheGet(k)
    \/ Tick

\* Get as a function of the entries, the key and the time: applied to every
\* cache of SomeCaches at every age
SpecGet == InitGet /\ [][NextGet]_vars

-----------------------------------------------------------------------------
(* The cache called by concurrent goroutines: Put and Get statement by       *)
(* statement.  A caller is at "idle", at "lock" (calling c.mu.Lock()), then   *)
(* at the statements of the body ("lookup", "read", "write", "new",           *)
(* "return") and at "unlock" (the deferred c.mu.Unlock()).                     *)

Callers == 1..NCallers

\* the positions between c.mu.Lock() and the deferred c.mu.Unlock()
Critical == {"lookup", "read", "write", "new", "return", "unlock"}

\* caller p calls Put(k, v) or Get(k)
Call(p) ==
    /\ calls[p].pc = "idle"
    /\ started < MaxCalls
    /\ started' = started + 1
    /\ \E op \in {"Put", "Get"}, k \in HarnessKeys, v \in HarnessRecords :
           calls' = [calls EXCEPT ![p] = [NoCall EXCEPT !.pc = "lock", !.op = op,
                                                       !.k = k, !.v = v]]
    /\ UNCHANGED <<mu, entries, now, harnessVars, loopVars>>

\* c.mu.Lock(), were it to return while another caller holds the mutex
Lock_NoWait(p) ==
    /\ calls[p].pc = "lock"
    /\ mu' = p
    /\ calls' = [calls EXCEPT ![p].pc = "lookup", ![p].before = entries]
    /\ UNCHANGED <<started, entries, now, harnessVars, loopVars>>

\* c.mu.Lock(): returns once the mutex is unlocked, and holds it
Lock(p) ==
    /\ calls[p].pc = "lock"
    /\ mu = 0
    /\ mu' = p
    /\ calls' = [calls EXCEPT ![p].pc = "lookup", ![p].before = entries]
    /\ UNCHANGED <<started, entries, now, harnessVars, loopVars>>

\* entry, ok := c.entries[k] of Put, and the test of ok
PutLookup(p) ==
    /\ calls[p].pc = "lookup" /\ calls[p].op = "Put"
    /\ calls' = [calls EXCEPT ![p].ok = calls[p].k \in DOMAIN entries,
                              ![p].pc = IF calls[p].k \in DOMAIN entries
                                        THEN "read" ELSE "new"]
    /\ UNCHANGED <<mu, started, entries, now, harnessVars, loopVars>>

\* append(entry.Records, v): the right-hand side of the assignment
PutRead(p) ==
    /\ calls[p].pc = "read"
    /\ calls' = [calls EXCEPT ![p].tmp = Append(entries[calls[p].k].Records,
                                                calls[p].v),
                              ![p].pc = "write"]
    /\ UNCHANGED <<mu, started, entries, now, harnessVars, loopVars>>

\* entry.Records = ...: the assignment, through the pointer the map holds
PutWrite(p) ==
    /\ calls[p].pc = "write"
    /\ entries' = [entries EXCEPT ![calls[p].k].Records = calls[p].tmp]
    /\ calls' = [calls EXCEPT ![p].pc = "unlock"]
    /\ UNCHANGED <<mu, started, now, harnessVars, loopVars>>

\* entry = &CacheEntry{...}: assigns the local variable only
PutNew(p) ==
    /\ calls[p].pc = "new"
    /\ calls' = [calls EXCEPT ![p].pc = "unlock"]
    /\ UNCHANGED <<mu, started, entries, now, harnessVars, loopVars>>

\* e, ok := c.entries[k] of Get
GetLookup(p) ==
    /\ calls[p].pc = "lookup" /\ calls[p].op = "Get"
    /\ calls' = [calls EXCEPT ![p].ok = calls[p].k \in DOMAIN entries,
                              ![p].pc = "return"]
    /\ UNCHANGED <<mu, started, entries, now, harnessVars, loopVars>>

\* the return statements of Get: the values it returns
GetReturn(p) ==
    /\ calls[p].pc = "return"
    /\ calls' = [calls EXCEPT
           ![p].found = calls[p].ok /\ ~(now - entries[calls[p].k].Ts > TTL),
           ![p].recs = IF calls[p].ok /\ ~(now - entries[calls[p].k].Ts > TTL)
                       THEN entries[calls[p].k].Records ELSE <<>>,
           ![p].pc = "unlock"]
    /\ UNCHANGED <<mu, started, entries, now, harnessVars, loopVars>>

\* the deferred c.mu.Unlock(), and the return to the caller
Unlock(p) ==
    /\ calls[p].pc = "unlock"
    /\ mu' = 0
    /\ calls' = [calls EXCEPT ![p] = NoCall]
    /\ UNCHANGED <<started, entries, now, harnessVars, loopVars>>

\* the caches of the concurrent callers: one record per entry
LockCaches == {c \in SomeCaches : \A k \in DOMAIN c : Len(c[k].Records) = 1}

InitLock ==
    /\ build = "scanner"
    /\ pc = "FetchPrices"
    /\ now = 0
    /\ entries \in LockCaches
    /\ records = <<>>
    /\ stations = EmptyMap
    /\ gauge = EmptyMap
    /\ emitted = <<>>
    /\ puts = <<>>
    /\ priceOutcome = "none"
    /\ stationOutcome = "none"
    /\ iter = 1
    /\ priceResp = NoResponse
    /\ stationResp = NoResponse
    /\ putHist = EmptyMap
    /\ getResult = NoGet
    /\ mu = 0
    /\ calls = [p \in Callers |-> NoCall]
    /\ started = 0

NextLock ==
    \E p \in Callers :
        \/ Call(p)
        \/ Lock(p)
        \/ PutLookup(p)
        \/ PutRead(p)
        \/ PutWrite(p)
        \/ PutNew(p)
        \/ GetLookup(p)
        \/ GetReturn(p)
        \/ Unlock(p)

\* NCallers goroutines calling Put and Get on one Cache
SpecLock == InitLock /\ [][NextLock]_vars

-----------------------------------------------------------------------------
(* Properties *)

\* the records a Get returns contain r
Holds(g, r) == g.found /\ \E i \in 1..Len(g.recs) : g.recs[i] = r

\* the non-empty lines of a feed after its first n lines
RECURSIVE dataRows(_, _)
dataRows(lines, n) ==
    IF n >= Len(lines) THEN <<>>
    ELSE IF Len(lines[n + 1]) = 0 THEN dataRows(lines, n + 1)
    ELSE <<lines[n + 1]>> \o dataRows(lines, n + 1)

\* C1. Record Cache accumulation: a Get(k) issued before the TTL has elapsed
\* since the first Put to k returns found = true and every record Put to k
\* so far, in Put order.
C1_Accumulation ==
    (getResult.called /\ Len(getResult.put) > 0
        /\ getResult.at - getResult.first < TTL)
    => (getResult.found /\ getResult.recs = getResult.put)

\* C2. Iteration failure isolation: when the price fetch succeeded and the
\* station fetch failed, the iteration reaches Sleep with no tuple emitted and
\* with every price record of the iteration retrievable from the cache under
\* its key.
C2_FailureIsolation ==
    (pc = "Sleep" /\ priceOutcome = "ok" /\ stationOutcome = "failed")
    => /\ emitted = <<>>
       /\ \A i \in 1..Len(records) :
              Holds(Get(entries, cacheKey(records[i]), now), records[i])

\* C3. The refresh loop never terminates because of one iteration: no outcome
\* of the two fetches crashes the refresh goroutine.
C3_NeverCrashes == pc # "crashed"

\* C4. Per-iteration state machine: FetchPrices is followed by FetchStations
\* on success and by Sleep on failure, FetchStations by JoinAndEmit on success
\* and by Sleep on failure, JoinAndEmit by Sleep, Sleep by FetchPrices, and
\* nothing is emitted before JoinAndEmit.
C4_StateMachine ==
    [][/\ pc = "FetchPrices" =>
              /\ pc' = (IF priceOutcome' = "ok" THEN "FetchStations" ELSE "Sleep")
              /\ emitted' = <<>> /\ gauge' = gauge
       /\ pc = "FetchStations" =>
              /\ pc' = (IF stationOutcome' = "ok" THEN "JoinAndEmit" ELSE "Sleep")
              /\ emitted' = <<>> /\ gauge' = gauge
       /\ pc \in {"JoinAndEmit", "SetGauge"} =>
              pc' \in {"JoinAndEmit", "SetGauge", "Sleep"}
       /\ pc = "Sleep" => pc' = "FetchPrices"]_vars

\* the fields of the one station row of the scenario of C5
ScenarioStation == Split(StationA, ";")

\* C5. End-to-end join: the price feed of 2 header lines and the row of
\* station 101 with the station feed of 1 header line and the 10-field row of
\* station 101 emit exactly one tuple, whose id, fuel type, price and
\* self-service flag are the price row's and whose name, type, municipality,
\* province and brand are the station row's.
C5_EndToEnd ==
    (pc = "Sleep"
        /\ priceResp = Response(FALSE, <<Header, Header, PriceA>>, FALSE)
        /\ stationResp = Response(FALSE, <<Header, StationA>>, FALSE))
    => /\ Len(emitted) = 1
       /\ emitted[1].value = RecA.Prezzo
       /\ emitted[1].labels =
              <<FormatInt(101), RecA.Carburante, FormatBool(TRUE),
                ScenarioStation[5], ScenarioStation[4], ScenarioStation[7],
                ScenarioStation[8], ScenarioStation[3]>>

\* the Set call e is the one of record r joined with the table m
JoinedAs(e, r, m) ==
    /\ e.value = r.Prezzo
    /\ SubSeq(e.labels, 1, 3)
           = <<FormatInt(r.IDImpianto), r.Carburante, FormatBool(r.SelfService)>>
    /\ IF r.IDImpianto \in DOMAIN m
       THEN SubSeq(e.labels, 4, 8)
                = <<m[r.IDImpianto].Nome, m[r.IDImpianto].Tipo,
                    m[r.IDImpianto].Comune, m[r.IDImpianto].Provincia,
                    m[r.IDImpianto].Bandiera>>
       ELSE SubSeq(e.labels, 4, 8) = <<<<>>, <<>>, <<>>, <<>>, <<>>>>

\* C6. Join completeness: when both fetches succeeded, the iteration issues
\* exactly one Set per price row of the feed, in feed order; a record whose
\* station is absent from the table has the five metadata labels empty, a
\* record whose station is present has them equal to the station's fields.
C6_JoinCompleteness ==
    (pc = "Sleep" /\ priceOutcome = "ok" /\ stationOutcome = "ok")
    => /\ Len(emitted) = Len(dataRows(priceResp.lines, 2))
       /\ Len(emitted) = Len(records)
       /\ \A i \in 1..Len(records) : JoinedAs(emitted[i], records[i], stations)

\* an iteration that joined one record with its station and one without
C6_Witness ==
    /\ pc = "Sleep" /\ priceOutcome = "ok" /\ stationOutcome = "ok"
    /\ \E i, j \in 1..Len(emitted) :
          /\ records[i].IDImpianto \in DOMAIN stations
          /\ emitted[i].labels[4] # <<>>
          /\ records[j].IDImpianto \notin DOMAIN stations
          /\ emitted[j].labels[4] = <<>>

\* the answer Get owes for key k at time t on the entries c
Owed(c, k, t) ==
    IF k \in DOMAIN c /\ t - c[k].Ts <= TTL
    THEN [recs |-> c[k].Records, found |-> TRUE]
    ELSE [recs |-> <<>>, found |-> FALSE]

\* C7. Lazy expiry: Get answers not found with no records for an entry older
\* than the TTL and for a missing key, found with the records for an entry of
\* age at most the TTL, and leaves the entries as they were.
C7_LazyExpiry ==
    getResult.called
    => /\ getResult.after = getResult.before
       /\ [recs |-> getResult.recs, found |-> getResult.found]
              = Owed(getResult.before, getResult.k, getResult.at)

\* a Get of an expired entry, which is still in the cache afterwards
C7_Witness ==
    /\ getResult.called
    /\ getResult.k \in DOMAIN getResult.before
    /\ getResult.at - getResult.before[getResult.k].Ts > TTL
    /\ ~getResult.found
    /\ getResult.k \in DOMAIN getResult.after

\* C8. Cache entry invariant: from the first Put to k on, k has an entry,
\* created at the time of that first Put and holding every record Put to k,
\* in Put order.
C8_EntryInvariant ==
    \A k \in DOMAIN putHist :
        /\ k \in DOMAIN entries
        /\ entries[k].Ts = putHist[k].first
        /\ entries[k].Records = putHist[k].recs

\* the row parses as a price record
WellFormedPrice(items) ==
    /\ Len(items) = 5
    /\ ParseInt(items[1]).ok
    /\ ParseFloat(items[3]).ok
    /\ ParseBool(items[4]).ok
    /\ timeParse(items[5]).ok

\* the data rows of the price feed are rows, and refreshRecords returned out
BatchAtomic(rows, readErr, failed, out) ==
    IF \E i \in 1..Len(rows) : ~WellFormedPrice(Split(rows[i], ";"))
    THEN failed /\ out = <<>>
    ELSE readErr \/
         (/\ ~failed
          /\ Len(out) = Len(rows)
          /\ \A i \in 1..Len(rows) : out[i] = parseRecord(Split(rows[i], ";")).r)

\* C9. Price batch atomicity: a data row with a field count other than 5 or
\* a field that does not parse makes refreshRecords fail with no records,
\* wherever the row is; when every row is well-formed (and the body is read
\* to its end) it returns one record per row, in feed order.
C9_BatchAtomicity ==
    (priceOutcome # "none" /\ ~priceResp.err /\ Len(priceResp.lines) >= 2)
    => BatchAtomic(dataRows(priceResp.lines, 2), priceResp.readErr,
                   priceOutcome = "failed", records)

\* a bad row after a good one: the good row was parsed and Put, and no record
\* is returned
C9_Witness ==
    /\ priceOutcome = "failed"
    /\ Len(dataRows(priceResp.lines, 2)) = 2
    /\ WellFormedPrice(Split(dataRows(priceResp.lines, 2)[1], ";"))
    /\ ~WellFormedPrice(Split(dataRows(priceResp.lines, 2)[2], ";"))
    /\ Len(puts) = 1
    /\ records = <<>>

\* the station row has 10 or 11 fields
TenOrEleven(row) == Len(Split(row, ";")) \in {10, 11}

\* the station row has a numeric id
NumericId(row) == ParseInt(Split(row, ";")[1]).ok

\* the data rows of the station feed are rows, and updateStations ended as
\* outcome with the table m
FieldCountPolicy(rows, outcome, m) ==
    IF \E i \in 1..Len(rows) : ~TenOrEleven(rows[i])
    THEN outcome = "failed" /\ m = EmptyMap
    ELSE (\A i \in 1..Len(rows) : NumericId(rows[i]))
         => /\ outcome = "ok"
            /\ \A i \in 1..Len(rows) :
                   ParseInt(Split(rows[i], ";")[1]).v \in DOMAIN m

\* C10. Station field-count policy: every data row (every line after the
\* header line) of 10 or 11 fields with a numeric id is accepted into the
\* table, and a data row of any other field count makes updateStations fail
\* with no table.
C10_FieldCountPolicy ==
    (stationOutcome # "none" /\ ~stationResp.err /\ ~stationResp.readErr)
    => FieldCountPolicy(dataRows(stationResp.lines, 1), stationOutcome, stations)

\* the id of a station row with a numeric id
idOf(row) == ParseInt(Split(row, ";")[1]).v

\* the index of the last row of rows that has the id
lastWith(rows, id) ==
    CHOOSE j \in 1..Len(rows) :
        /\ idOf(rows[j]) = id
        /\ \A l \in (j + 1)..Len(rows) : idOf(rows[l]) # id

\* the Station literal built from the fields of row
stationOfRow(row) ==
    Station(idOf(row), Split(row, ";"), Split(row, ";")[6])

\* the data rows of the station feed are rows, all accepted, and two of them
\* have the same id: updateStations ended as outcome with the table m
LastWriteWins(rows, outcome, m) ==
    (/\ \A i \in 1..Len(rows) : TenOrEleven(rows[i]) /\ NumericId(rows[i])
     /\ \E i, j \in 1..Len(rows) : i < j /\ idOf(rows[i]) = idOf(rows[j]))
    => /\ outcome = "ok"
       /\ \A i \in 1..Len(rows) :
              /\ idOf(rows[i]) \in DOMAIN m
              /\ m[idOf(rows[i])] = stationOfRow(rows[lastWith(rows, idOf(rows[i]))])

\* C11. Duplicate station identifiers are resolved last-write-wins: when two
\* accepted data rows (lines after the header line) of one station feed have
\* the same id, updateStations does not fail and the table maps the id to the
\* Station made of the fields of the later row.
C11_LastWriteWins ==
    (stationOutcome # "none" /\ ~stationResp.err /\ ~stationResp.readErr)
    => LastWriteWins(dataRows(stationResp.lines, 1), stationOutcome, stations)

\* the index of the last Set call of sets for the label tuple l
lastEmission(sets, l) ==
    CHOOSE i \in 1..Len(sets) :
        /\ sets[i].labels = l
        /\ \A j \in (i + 1)..Len(sets) : sets[j].labels # l

\* the gauge g2 is g1 after the Set calls sets: a tuple that was Set holds the
\* value of its last Set, every other tuple is as it was
SinkAfter(g1, sets, g2) ==
    /\ DOMAIN g2 = DOMAIN g1 \cup {sets[i].labels : i \in 1..Len(sets)}
    /\ \A l \in DOMAIN g2 :
           IF \E i \in 1..Len(sets) : sets[i].labels = l
           THEN g2[l] = sets[lastEmission(sets, l)].value
           ELSE g2[l] = g1[l]

\* the Set calls a step adds to the calls of the iteration
newSets(before, after) ==
    IF Len(after) > Len(before)
    THEN SubSeq(after, Len(before) + 1, Len(after))
    ELSE <<>>

\* the gauge g2 is g1 after the head of a turn of the join that goes on to
\* next: every tuple of g1 is as it was, and a new tuple is the one of the
\* record the turn is about, whose Set is the next step
ChildOnly(g1, g2, next) ==
    /\ \A l \in DOMAIN g1 : l \in DOMAIN g2 /\ g2[l] = g1[l]
    /\ DOMAIN g2 # DOMAIN g1 =>
           /\ next = "SetGauge"
           /\ DOMAIN g2 \ DOMAIN g1
                  = {joinTuple(records[Len(emitted) + 1], stations).labels}

\* C12. Sink state across iterations: a Set leaves its label tuple at the
\* price it was called with and every other tuple as it was; the step before
\* it changes no value (it adds at most the tuple about to be Set); every
\* other step (the fetches, failed or not, the end of the join and the sleep)
\* leaves the gauge as it is.  So between iterations each tuple holds the
\* price of its most recent Set.
C12_SinkState ==
    [][IF pc = "SetGauge"
       THEN SinkAfter(gauge, newSets(emitted, emitted'), gauge')
       ELSE IF pc = "JoinAndEmit"
       THEN ChildOnly(gauge, gauge', pc')
       ELSE gauge' = gauge]_vars

\* the second iteration has Set the tuple of station 101 to a new price: the
\* gauge holds the new price for it, and it holds two tuples, the other one of
\* station 102, so that the first iteration had Set both of them
C12_Witness ==
    /\ iter = 2 /\ pc = "Sleep"
    /\ Len(emitted) = 1
    /\ emitted[1].value = RecA3.Prezzo
    /\ RecA3.Prezzo # RecA.Prezzo
    /\ gauge[emitted[1].labels] = RecA3.Prezzo
    /\ Cardinality(DOMAIN gauge) = 2
    /\ \E l \in DOMAIN gauge : l[1] = FormatInt(RecB.IDImpianto)

\* the callers that are between Lock and Unlock
InCritical == {p \in Callers : calls[p].pc \in Critical}

\* the call c, about to unlock on the entries e at time t, had the effect of
\* the whole Put or Get applied to the entries it found when it locked
AsWhole(c, e, t) ==
    IF c.op = "Put"
    THEN e = Put(c.before, c.k, c.v, t)
    ELSE /\ e = Get(c.before, c.k, t).entries
         /\ c.recs = Get(c.before, c.k, t).recs
         /\ c.found = Get(c.before, c.k, t).found

\* C13. Cache mutual exclusion: at most one call of Put or Get is between
\* Lock and Unlock, and it holds the mutex; until it writes, the entries are
\* the ones it found when it locked, and when it unlocks its effect and its
\* result are those of the whole call applied to them (so no call sees or
\* undoes a part of another).
C13_MutualExclusion ==
    /\ Cardinality(InCritical) <= 1
    /\ \A p \in InCritical :
           /\ mu = p
           /\ calls[p].pc # "unlock" => entries = calls[p].before
           /\ calls[p].pc = "unlock" => AsWhole(calls[p], entries, now)

\* a Put has computed its append and is about to write it while another Put
\* to the same entry waits for the mutex
C13_Witness ==
    \E p, q \in Callers :
        /\ p # q
        /\ calls[p].pc = "write"
        /\ calls[q].pc = "lock" /\ calls[q].op = "Put"
        /\ calls[q].k = calls[p].k

\* the lines of the station feed after its first line are rows, all of 10 or
\* 11 fields with numeric ids, no two the same: updateStations ended as
\* outcome with the table m
OneHeader(rows, outcome, m) ==
    (/\ \A i \in 1..Len(rows) :
            Len(rows[i]) > 0 /\ TenOrEleven(rows[i]) /\ NumericId(rows[i])
     /\ \A i, j \in 1..Len(rows) : i # j => idOf(rows[i]) # idOf(rows[j]))
    => /\ outcome = "ok"
       /\ DOMAIN m = {idOf(rows[i]) : i \in 1..Len(rows)}
       /\ Cardinality(DOMAIN m) = Len(rows)

\* C14. Station header handling: updateStations discards the first line of
\* the station feed only; a feed of one header line and n valid rows with
\* distinct ids gives a table of n stations, the ones of the rows.
C14_HeaderHandling ==
    (stationOutcome # "none" /\ ~stationResp.err /\ ~stationResp.readErr
        /\ Len(stationResp.lines) >= 1)
    => OneHeader(Tail(stationResp.lines), stationOutcome, stations)

RECURSIVE goodPrefix(_)
\* the rows before the first one that does not parse as a price record
goodPrefix(rows) ==
    IF Len(rows) = 0 THEN <<>>
    ELSE IF ~WellFormedPrice(Split(rows[1], ";")) THEN <<>>
    ELSE <<rows[1]>> \o goodPrefix(Tail(rows))

\* the Put call owed to a price row
putOf(row) ==
    <<cacheKey(parseRecord(Split(row, ";")).r), parseRecord(Split(row, ";")).r>>

\* the Put calls owed to the rows, in row order
putsOf(rows) == [i \in 1..Len(rows) |-> putOf(rows[i])]

\* the Put calls owed to a price response
PutsOwed(resp) ==
    IF resp.err \/ Len(resp.lines) < 2 THEN <<>>
    ELSE putsOf(goodPrefix(dataRows(resp.lines, 2)))

\* C15. Cache-before-join ordering: once refreshRecords has returned, and so
\* before the station fetch and the join of the iteration and through them,
\* the Put calls of the iteration are one per price row parsed, in row order,
\* up to the first row that does not parse, whether or not the batch failed.
C15_PutOrdering ==
    priceOutcome # "none" => puts = PutsOwed(priceResp)

\* two rows were parsed and Put in row order before the read of the body
\* failed and aborted the batch
C15_Witness ==
    /\ priceOutcome = "failed"
    /\ priceResp.readErr
    /\ Len(puts) = 2
    /\ puts[1][1] # puts[2][1]
    /\ puts[1] = putOf(dataRows(priceResp.lines, 2)[1])
    /\ stationOutcome = "none"

\* the lines of the station feed after its first line are rows: valid rows
\* and at least one empty line; updateStations ended as outcome with the
\* table m
EmptyTolerated(rows, outcome, m) ==
    (/\ \E i \in 1..Len(rows) : Len(rows[i]) = 0
     /\ \A i \in 1..Len(rows) :
            Len(rows[i]) > 0 => TenOrEleven(rows[i]) /\ NumericId(rows[i]))
    => /\ outcome = "ok"
       /\ DOMAIN m = {idOf(rows[i]) : i \in {j \in 1..Len(rows) : Len(rows[j]) > 0}}

\* C16. Empty station line tolerance: an empty line among the data lines of
\* the station feed does not make updateStations fail, and the table it
\* returns holds the stations of the rows before and after the empty line.
C16_EmptyLine ==
    (stationOutcome # "none" /\ ~stationResp.err /\ ~stationResp.readErr
        /\ Len(stationResp.lines) >= 1)
    => EmptyTolerated(Tail(stationResp.lines), stationOutcome, stations)

\* the records r1 and r2 are held by one entry of the cache c
SameEntry(c, r1, r2) ==
    \E k \in DOMAIN c :
        /\ \E i \in 1..Len(c[k].Records) : c[k].Records[i] = r1
        /\ \E i \in 1..Len(c[k].Records) : c[k].Records[i] = r2

\* the records r1 and r2 have the same station id and observation time
SameIdAndTime(r1, r2) ==
    /\ r1.IDImpianto = r2.IDImpianto
    /\ r1.DataComunicazione = r2.DataComunicazione

\* C17. Cache key identity: two price records Put by refreshRecords are held
\* by the same cache entry if and only if they have the same station id and
\* the same observation time, whatever their fuel, price and self-service
\* flag.
C17_KeyIdentity ==
    \A i, j \in 1..Len(puts) :
        i < j => (SameEntry(entries, puts[i][2], puts[j][2])
                    <=> SameIdAndTime(puts[i][2], puts[j][2]))

\* the table m holds a station made from the 11 items of a row
AcceptedEleven(items, m) ==
    /\ Len(items) = 11
    /\ ParseInt(items[1]).ok
    /\ ParseInt(items[1]).v \in DOMAIN m
    /\ m[ParseInt(items[1]).v].Gestore = items[2]
    /\ m[ParseInt(items[1]).v].Nome = items[5]

\* the station st keeps the first address of the 11 items and takes its
\* municipality, province, latitude and longitude from after the second
Recovered(items, st) ==
    /\ st.Indirizzo = items[6]
    /\ st.Comune = items[8]
    /\ st.Provincia = items[9]
    /\ st.Lat = items[10]
    /\ st.Long = items[11]

\* C18. 11-field station rows: the station stored for an accepted row of 11
\* fields has the field at index 5 as its address and the fields at indices
\* 7, 8, 9 and 10 as its municipality, province, latitude and longitude (0-based
\* indices; items[6] and items[8..11] here).
C18_ElevenFields ==
    stationOutcome = "ok"
    => \A i \in 1..Len(stationResp.lines) :
           AcceptedEleven(Split(stationResp.lines[i], ";"), stations)
           => Recovered(Split(stationResp.lines[i], ";"),
                        stations[idOf(stationResp.lines[i])])

====
